---- MODULE Spec2Model ----
(***************************************************************************)
(* Model of mocap_processing/utils/conversions.py.                         *)
(*                                                                         *)
(* An ndarray is a record [shape, data]: shape is the tuple of axis        *)
(* lengths and data the entries in C (row-major) order, so that reshape    *)
(* keeps data and replaces shape.  A call that raises is a result with a   *)
(* non-empty err field.  Every function of the module is pure; the state   *)
(* machine records the call in progress (call, arg), its result (out) and  *)
(* the number of warnings it has emitted (warned).                         *)
(***************************************************************************)
EXTENDS Integers, Sequences, FiniteSets, TLC

VARIABLES call, arg, out, warned

vars == <<call, arg, out, warned>>

\* Largest number of batch elements (product of the leading axes) of an input.
MaxElems == 3

----------------------------------------------------------------------------
(* ndarray helpers *)

RECURSIVE Prod(_)
Prod(s) == IF s = <<>> THEN 1 ELSE Head(s) * Prod(Tail(s))

RECURSIVE Flatten(_)
Flatten(ss) == IF ss = <<>> THEN <<>> ELSE Head(ss) \o Flatten(Tail(ss))

Arr(shape, data) == [shape |-> shape, data |-> data]

Ok(v) == [err |-> "", val |-> v]

Raise(e) == [err |-> e, val |-> <<>>]

\* a.shape[:-k]
Lead(a, k) == SubSeq(a.shape, 1, Len(a.shape) - k)

\* the leading shapes of the inputs: unbatched, one axis, two axes
LeadShapes ==
    {<<>>} \cup {<<n>> : n \in 1..MaxElems}
           \cup {<<m, n>> : m \in 1..MaxElems, n \in 1..MaxElems}

BatchShapes == {s \in LeadShapes : Prod(s) <= MaxElems}

\* every array of leading shape s whose elements are drawn from samples
ArraysOf(s, trailing, samples) ==
    {Arr(s \o trailing, Flatten(f)) : f \in [1..Prod(s) -> samples]}

----------------------------------------------------------------------------
(* constants module: identity rotation, identity transform *)

eye_R == Arr(<<3, 3>>, <<1, 0, 0,  0, 1, 0,  0, 0, 1>>)

eye_T == Arr(<<4, 4>>, <<1, 0, 0, 0,  0, 1, 0, 0,  0, 0, 1, 0,  0, 0, 0, 1>>)

----------------------------------------------------------------------------
(* T2Rp, Rp2T, p2T *)

\* T2Rp taking p from the bottom row T[..., 3, :3]
T2Rp_bottom_row(T) ==
    LET lead == Lead(T, 2)
        n == Prod(lead)
        R == Arr(lead \o <<3, 3>>,
                 [x \in 1..(n * 9) |->
                    T.data[((x - 1) \div 9) * 16 + (((x - 1) % 9) \div 3) * 4
                           + ((x - 1) % 3) + 1]])
        p == Arr(lead \o <<3>>,
                 [x \in 1..(n * 3) |->
                    T.data[((x - 1) \div 3) * 16 + 12 + ((x - 1) % 3) + 1]])
    IN  [R |-> R, p |-> p]

T2Rp(T) ==
    LET lead == Lead(T, 2)
        n == Prod(lead)
        R == Arr(lead \o <<3, 3>>,
                 [x \in 1..(n * 9) |->
                    T.data[((x - 1) \div 9) * 16 + (((x - 1) % 9) \div 3) * 4
                           + ((x - 1) % 3) + 1]])
        p == Arr(lead \o <<3>>,
                 [x \in 1..(n * 3) |->
                    T.data[((x - 1) \div 3) * 16 + ((x - 1) % 3) * 4 + 3 + 1]])
    IN  [R |-> R, p |-> p]

\* T[..., :3, :3] = R_flat and T[..., :3, 3] = p_flat on n copies of eye_T;
\* R_flat holds nR matrices and p_flat nP vectors, a single one is broadcast
Rp2TData(n, R_flat, nR, p_flat, nP) ==
    [x \in 1..(n * 16) |->
        LET b == (x - 1) \div 16
            i == ((x - 1) % 16) \div 4
            j == (x - 1) % 4
            bR == IF nR = 1 THEN 0 ELSE b
            bp == IF nP = 1 THEN 0 ELSE b
        IN  IF i < 3 /\ j < 3 THEN R_flat[bR * 9 + i * 3 + j + 1]
            ELSE IF i < 3 THEN p_flat[bp * 3 + i + 1]
            ELSE eye_T.data[i * 4 + j + 1]]

Rp2T(R, p) ==
    LET input_shape == IF Len(R.shape) > 2 THEN Lead(R, 2) ELSE Lead(p, 1)
        nR == Prod(R.shape) \div 9
        np == Prod(p.shape) \div 3
        n == Prod(input_shape)
    IN  IF nR # n /\ nR # 1 THEN Raise("ValueError")
        ELSE IF np # n /\ np # 1 THEN Raise("ValueError")
        ELSE Ok(Arr(input_shape \o <<4, 4>>,
                    Rp2TData(n, R.data, nR, p.data, np)))

p2T(p) == Rp2T(eye_R, p)

----------------------------------------------------------------------------
(* inputs of the transform conversions *)

TSamples ==
    { eye_T.data,
      <<1, 2, 3, 10,  4, 5, 6, 11,  7, 8, 9, 12,  0, 0, 0, 1>>,
      <<0, -1, 0, -1,  1, 0, 0, 0,  0, 0, 1, 5,  0, 0, 0, 1>>,
      <<1, 2, 3, 10,  4, 5, 6, 11,  7, 8, 9, 12,  13, 14, 15, 16>> }

RSamples ==
    { eye_R.data,
      <<1, 2, 3,  4, 5, 6,  7, 8, 9>>,
      <<0, -1, 0,  1, 0, 0,  0, 0, 1>> }

pSamples == { <<0, 0, 0>>, <<1, 2, 3>>, <<-1, 0, 5>> }

Transforms == UNION {ArraysOf(s, <<4, 4>>, TSamples) : s \in BatchShapes}

Rotations == UNION {ArraysOf(s, <<3, 3>>, RSamples) : s \in BatchShapes}

Positions == UNION {ArraysOf(s, <<3>>, pSamples) : s \in BatchShapes}

----------------------------------------------------------------------------
(* numbers of the quaternion arrays *)
(* An entry of a quaternion array is s * sqrt(n / d) with s its sign and     *)
(* n / d a reduced fraction, which is closed under division by a norm.  The *)
(* whole array carries a binary exponent exp: its entries are scaled by     *)
(* 2^exp, so that inputs far below EPSILON can be written.                  *)

RECURSIVE GCD(_, _)
GCD(a, b) == IF b = 0 THEN a ELSE GCD(b, a % b)

Sign(k) == IF k < 0 THEN -1 ELSE IF k = 0 THEN 0 ELSE 1

Frac(n, d) == IF n = 0 THEN [n |-> 0, d |-> 1]
              ELSE [n |-> n \div GCD(n, d), d |-> d \div GCD(n, d)]

Num(s, n, d) == IF n = 0 THEN [s |-> 0, n |-> 0, d |-> 1]
                ELSE [s |-> s, n |-> Frac(n, d).n, d |-> Frac(n, d).d]

FromInt(k) == Num(Sign(k), k * k, 1)

FromInts(v) == [i \in 1..Len(v) |-> FromInt(v[i])]

QArr(shape, data, exp) == [shape |-> shape, data |-> data, exp |-> exp]

\* EPSILON = 2^EpsilonExp, the spacing of float64 at 1.0
EpsilonExp == -52

\* np.linalg.norm(v) squared, as a fraction
RECURSIVE NormSq(_)
NormSq(v) ==
    IF v = <<>> THEN Frac(0, 1)
    ELSE LET r == NormSq(Tail(v))
             x == Head(v)
         IN  Frac(x.n * r.d + r.n * x.d, x.d * r.d)

\* the test norm == 0 in place of norm < EPSILON
NormIsZero(nsq, exp) == nsq.n = 0

\* norm < EPSILON for a vector of squared norm nsq * 2^(2 exp)
NormBelowEpsilon(nsq, exp) ==
    LET k == 2 * EpsilonExp - 2 * exp
    IN  IF nsq.n = 0 THEN TRUE
        ELSE IF k >= 0 THEN nsq.n < nsq.d * 2^k
        ELSE IF -k > 30 THEN FALSE
        ELSE nsq.n * 2^(-k) < nsq.d

\* result /= norm
DivideByNorm(v, nsq) ==
    [i \in 1..Len(v) |-> Num(v[i].s, v[i].n * nsq.d, v[i].d * nsq.n)]

\* the sign flipped on the first component only
Negate_first(v) == [i \in 1..Len(v) |-> IF i = 1 THEN [v[i] EXCEPT !.s = -v[i].s] ELSE v[i]]

\* result *= -1.0
Negate(v) == [i \in 1..Len(v) |-> [v[i] EXCEPT !.s = -v[i].s]]

\* result[idx] for a list idx of 0-based indices
Take(v, idx) == [i \in 1..Len(idx) |-> v[idx[i] + 1]]

\* name in op, for op a list of names
In(name, op) == \E i \in 1..Len(op) : op[i] = name

----------------------------------------------------------------------------
(* Q2Q *)

\* the value of result inside q2q: a vector with its exponent, or the error
\* raised so far
Res(v, exp) == [err |-> "", val |-> v, exp |-> exp]

Raised(e) == [err |-> e, val |-> <<>>, exp |-> 0]

\* if 'normalize' in op: ...
q2q_normalize(r, op) ==
    IF r.err # "" \/ ~In("normalize", op) THEN r
    ELSE LET norm2 == NormSq(r.val)
         IN  IF NormBelowEpsilon(norm2, r.exp)
             THEN Raised("Exception")
             ELSE Res(DivideByNorm(r.val, norm2), 0)

\* if 'halfspace' in op: ...
q2q_halfspace(r, op, wxyz_in) ==
    IF r.err # "" \/ ~In("halfspace", op) THEN r
    ELSE LET w_idx == IF wxyz_in THEN 0 ELSE 3
         IN  IF w_idx >= Len(r.val) THEN Raised("IndexError")
             ELSE IF r.val[w_idx + 1].s < 0 THEN Res(Negate(r.val), r.exp)
             ELSE r

\* the same permutation for both input layouts
q2q_change_order_one_way(r, op, wxyz_in) ==
    IF r.err # "" \/ ~In("change_order", op) THEN r
    ELSE IF Len(r.val) < 4 THEN Raised("IndexError")
    ELSE Res(Take(r.val, <<1, 2, 3, 0>>), r.exp)

\* if 'change_order' in op: ...
q2q_change_order(r, op, wxyz_in) ==
    IF r.err # "" \/ ~In("change_order", op) THEN r
    ELSE IF Len(r.val) < 4 THEN Raised("IndexError")
    ELSE IF wxyz_in THEN Res(Take(r.val, <<1, 2, 3, 0>>), r.exp)
    ELSE Res(Take(r.val, <<3, 0, 1, 2>>), r.exp)

\* change_order applied before halfspace
q2q_reorder_first(q, exp, op, wxyz_in) ==
    q2q_halfspace(
        q2q_change_order(q2q_normalize(Res(q, exp), op), op, wxyz_in),
        op, wxyz_in)

\* the inner function of Q2Q on one 1-d vector q with binary exponent exp
q2q(q, exp, op, wxyz_in) ==
    q2q_change_order(
        q2q_halfspace(q2q_normalize(Res(q, exp), op), op, wxyz_in),
        op, wxyz_in)

----------------------------------------------------------------------------
(* _apply_fn_agnostic_to_vec_mat *)
(* The only function that reaches the helper is the closure q2q of Q2Q (A2A *)
(* returns before its call of the helper).  The argument fn is that        *)
(* closure, given as the record of the variables it captured: op and       *)
(* wxyz_in.                                                                *)

\* fn(v) for a 1-d slice v of an array of binary exponent exp
CallFn(fn, v, exp) == q2q(v, exp, fn.op, fn.wxyz_in)

\* np.apply_along_axis(fn, 1, a) for a.ndim >= 2: fn is applied to every 1-d
\* slice a[m, :, k...] in the order of (m, k...), and its results are laid
\* along axis 1 of the output; the first slice that raises ends the call
apply_along_axis_1(a, fn) ==
    LET M == a.shape[1]
        N == a.shape[2]
        rest == SubSeq(a.shape, 3, Len(a.shape))
        C == Prod(rest)
        slice(t) == [n \in 1..N |->
                        a.data[((t \div C) * N + (n - 1)) * C + (t % C) + 1]]
        r == [t \in 0..(M * C - 1) |-> CallFn(fn, slice(t), a.exp)]
        failed == {t \in 0..(M * C - 1) : r[t].err # ""}
        first == CHOOSE t \in failed : \A u \in failed : t <= u
        L == Len(r[0].val)
    IN  IF failed # {} THEN Raise(r[first].err)
        ELSE Ok(QArr(<<M, L>> \o rest,
                     [x \in 1..(M * L * C) |->
                        LET m == (x - 1) \div (L * C)
                            n == ((x - 1) % (L * C)) \div C
                            k == (x - 1) % C
                        IN  r[m * C + k].val[n + 1]],
                     r[0].exp))

apply_fn_agnostic_to_vec_mat(input, fn) ==
    LET output == IF Len(input.shape) = 1
                  THEN QArr(<<1>> \o input.shape, input.data, input.exp)
                  ELSE input
        res == apply_along_axis_1(output, fn)
    IN  IF res.err # "" THEN res
        ELSE IF Len(input.shape) = 1
        THEN Ok(QArr(Tail(res.val.shape),
                     SubSeq(res.val.data, 1, Prod(Tail(res.val.shape))),
                     res.val.exp))
        ELSE res

----------------------------------------------------------------------------
(* Q2Q, continued *)

Q2Q(Q, op, wxyz_in) ==
    apply_fn_agnostic_to_vec_mat(Q, [op |-> op, wxyz_in |-> wxyz_in])

----------------------------------------------------------------------------
(* A2A *)

\* the function returns its argument in its first statement
A2A(A) == A

----------------------------------------------------------------------------
(* R2E *)
(* The Euler angles are kept as terms over the entries of R: the model does *)
(* not evaluate arctan2, arcsin and cos, it records which of them the code  *)
(* applies to which entries.                                                *)

\* an array of Euler angles: its entries are terms, not numbers
EulerArr(shape, terms) == [shape |-> shape, terms |-> terms]

Const(k) == <<"num", k>>

HalfPi == <<"pi/2">>

MinusHalfPi == <<"-pi/2">>

Arctan2(y, x) == <<"arctan2", y, x>>

NegArcsin(x) == <<"-arcsin", x>>

Cos(t) == <<"cos", t>>

Div(a, b) == <<"div", a, b>>

\* np.clip(x, -1, 1)
Clip(x) == IF x < -1 THEN -1 ELSE IF x > 1 THEN 1 ELSE x

\* rs[i, r, c] of rs = np.reshape(R, [-1, 3, 3]), i from 1
rs(R, i, r, c) == R.data[(i - 1) * 9 + r * 3 + c + 1]

n_samples(R) == Prod(R.shape) \div 9

is_one(R) == [i \in 1..n_samples(R) |-> rs(R, i, 0, 2) = 1]

is_minus_one(R) == [i \in 1..n_samples(R) |-> rs(R, i, 0, 2) = -1]

is_special(R) == [i \in 1..n_samples(R) |-> is_one(R)[i] \/ is_minus_one(R)[i]]

\* the normal mask as the complement of is_one alone
is_normal_not_one(R) == [i \in 1..n_samples(R) |-> ~is_one(R)[i]]

is_normal(R) == [i \in 1..n_samples(R) |-> ~(is_one(R)[i] \/ is_minus_one(R)[i])]

R2E(R) ==
    LET orig_shape == Lead(R, 2)
        I == 1..n_samples(R)
        zeros == [i \in I |-> Const(0)]
        \* special cases
        e1s == [i \in I |-> IF is_special(R)[i]
                            THEN Arctan2(Const(rs(R, i, 0, 1)), Const(rs(R, i, 0, 2)))
                            ELSE zeros[i]]
        e2m == [i \in I |-> IF is_minus_one(R)[i] THEN HalfPi ELSE zeros[i]]
        e2s == [i \in I |-> IF is_one(R)[i] THEN MinusHalfPi ELSE e2m[i]]
        \* normal cases
        e2 == [i \in I |-> IF is_normal(R)[i]
                           THEN NegArcsin(Const(Clip(rs(R, i, 0, 2))))
                           ELSE e2s[i]]
        e2_cos == [i \in I |-> Cos(e2[i])]
        e1 == [i \in I |-> IF is_normal(R)[i]
                           THEN Arctan2(Div(Const(rs(R, i, 1, 2)), e2_cos[i]),
                                        Div(Const(rs(R, i, 2, 2)), e2_cos[i]))
                           ELSE e1s[i]]
        e3 == [i \in I |-> IF is_normal(R)[i]
                           THEN Arctan2(Div(Const(rs(R, i, 0, 1)), e2_cos[i]),
                                        Div(Const(rs(R, i, 0, 0)), e2_cos[i]))
                           ELSE zeros[i]]
    IN  EulerArr(orig_shape \o <<3>>,
                 Flatten([i \in I |-> <<e1[i], e2[i], e3[i]>>]))

ESamples ==
    { eye_R.data,
      <<0, 0, 1,  0, 1, 0,  -1, 0, 0>>,
      <<0, 0, -1,  0, 1, 0,  1, 0, 0>>,
      <<2, 5, -1,  0, 1, 0,  1, 0, 0>>,
      <<0, -1, 0,  1, 0, 0,  0, 0, 1>>,
      <<1, 2, 3,  4, 5, 6,  7, 8, 9>>,
      <<1, 2, -3,  4, 5, 6,  7, 8, 9>> }

EulerInputs == UNION {ArraysOf(s, <<3, 3>>, ESamples) : s \in BatchShapes}

----------------------------------------------------------------------------
(* inputs of Q2Q and A2A *)

\* the exponent of the inputs far below EPSILON
TinyExp == -54

QVals == {-1, 0, 1, 2}

QSamples ==
    { <<0, 0, 0, 0>>, <<-1, 0, 0, 0>>, <<1, 2, 3, 4>>,
      <<0, 0, 0, -2>>, <<2, -1, 1, 1>> }

QVectors == [1..4 -> QVals] \cup QSamples

Quaternions ==
    {QArr(<<4>>, FromInts(v), e) : v \in QVectors, e \in {0, TinyExp}}
    \cup UNION {{QArr(a.shape, FromInts(a.data), e) : e \in {0, TinyExp}} :
                  a \in UNION {ArraysOf(s, <<4>>, QSamples) :
                                 s \in BatchShapes \ {<<>>}}}

OpNames == {"normalize", "halfspace", "change_order"}

\* the lists of distinct operation names, in every order
OpLists ==
    {l \in UNION {[1..k -> OpNames] : k \in 0..3} :
        \A i \in 1..Len(l), j \in 1..Len(l) : l[i] = l[j] => i = j}

AVals == {-4, 0, 3, 7}

ASamples == { <<0, 0, 0>>, <<0, 0, 3>>, <<0, -4, 0>>, <<3, 0, 4>>, <<7, 0, 0>> }

AxisAngles ==
    {Arr(<<3>>, v) : v \in [1..3 -> AVals]}
    \cup UNION {ArraysOf(s, <<3>>, ASamples) : s \in BatchShapes \ {<<>>}}

----------------------------------------------------------------------------
(* the calls *)

Init ==
    /\ call = "none"
    /\ arg = <<>>
    /\ out = <<>>
    /\ warned = 0

CallT2Rp ==
    /\ call = "none"
    /\ \E T \in Transforms :
        /\ call' = "T2Rp"
        /\ arg' = T
        /\ out' = T2Rp(T)
        /\ UNCHANGED warned

\* Rp2T applied to the pair the preceding T2Rp call returned
CallRp2TOfT2Rp ==
    /\ call = "T2Rp"
    /\ call' = "T2Rp;Rp2T"
    /\ arg' = arg
    /\ out' = Rp2T(out.R, out.p)
    /\ UNCHANGED warned

CallRp2T ==
    /\ call = "none"
    /\ \E R \in Rotations, p \in Positions :
        /\ call' = "Rp2T"
        /\ arg' = [R |-> R, p |-> p]
        /\ out' = Rp2T(R, p)
        /\ UNCHANGED warned

Callp2T ==
    /\ call = "none"
    /\ \E p \in Positions :
        /\ call' = "p2T"
        /\ arg' = [R |-> eye_R, p |-> p]
        /\ out' = p2T(p)
        /\ UNCHANGED warned

CallQ2Q ==
    /\ call = "none"
    /\ \E Q \in Quaternions, op \in OpLists, wxyz_in \in BOOLEAN :
        /\ call' = "Q2Q"
        /\ arg' = [Q |-> Q, op |-> op, wxyz_in |-> wxyz_in]
        /\ out' = Q2Q(Q, op, wxyz_in)
        /\ UNCHANGED warned

\* the result of a change_order call converted back from its output layout
CallQ2QOfQ2Q ==
    /\ call = "Q2Q"
    /\ arg.op = <<"change_order">>
    /\ out.err = ""
    /\ call' = "Q2Q;Q2Q"
    /\ arg' = arg
    /\ out' = Q2Q(out.val, <<"change_order">>, ~arg.wxyz_in)
    /\ UNCHANGED warned

CallA2A ==
    /\ call = "none"
    /\ \E A \in AxisAngles :
        /\ call' = "A2A"
        /\ arg' = A
        /\ out' = Ok(A2A(A))
        /\ UNCHANGED warned

CallR2E ==
    /\ call = "none"
    /\ \E R \in EulerInputs :
        /\ call' = "R2E"
        /\ arg' = R
        /\ out' = Ok(R2E(R))
        /\ UNCHANGED warned

\* the caller drops the result; the module keeps no state between calls
Return ==
    /\ call # "none"
    /\ call' = "none"
    /\ arg' = <<>>
    /\ out' = <<>>
    /\ warned' = 0

Next ==
    \/ CallT2Rp
    \/ CallRp2TOfT2Rp
    \/ CallRp2T
    \/ Callp2T
    \/ CallQ2Q
    \/ CallQ2QOfQ2Q
    \/ CallA2A
    \/ CallR2E
    \/ Return

Spec == Init /\ [][Next]_vars

----------------------------------------------------------------------------
(* properties *)

\* the i-th vector of width w of an array, i from 1
Row(a, i, w) == SubSeq(a.data, (i - 1) * w + 1, i * w)

Rows(a, w) == 1..(Prod(a.shape) \div w)

\* an unbatched vector or a batch with one leading axis
AtMostOneBatchAxis(a) == Len(a.shape) <= 2

RECURSIVE SumSq(_)
SumSq(v) == IF v = <<>> THEN 0 ELSE Head(v) * Head(v) + SumSq(Tail(v))

\* the set of names of an op list
Names(op) == {op[i] : i \in 1..Len(op)}

BottomRowsOk(T) ==
    \A b \in Rows(T, 16) : SubSeq(Row(T, b, 16), 13, 16) = <<0, 0, 0, 1>>

\* C1: for every transform T, unbatched or batched, whose bottom rows are
\* (0,0,0,1), Rp2T applied to the pair returned by T2Rp succeeds and returns
\* an array of the shape of T that equals T entry for entry.
C1_RoundTrip ==
    (call = "T2Rp;Rp2T" /\ BottomRowsOk(arg))
        => /\ out.err = ""
           /\ out.val.shape = arg.shape
           /\ out.val.data = arg.data

C1_Witness ==
    /\ call = "T2Rp;Rp2T"
    /\ BottomRowsOk(arg)
    /\ Len(arg.shape) = 4
    /\ Prod(arg.shape) > 16
    /\ Row(arg, 1, 16) # Row(arg, 2, 16)
    /\ Row(arg, 1, 16)[4] # Row(arg, 1, 16)[13]
    /\ out.val = arg

\* the magnitude of integer vector a is in (pi, 2 pi]:  pi^2 < a.a <= 4 pi^2
PiSqFloor == 9

FourPiSqFloor == 39

\* C2: for every axis-angle vector a (unbatched, or a row of a batch) whose
\* magnitude lies in (pi, 2 pi], A2A returns the vector of the opposite
\* direction and of magnitude 2 pi - |a|, which is at most pi.
C2_Claim ==
    call = "A2A" =>
        \A i \in Rows(arg, 3) :
            LET a == Row(arg, i, 3)
                r == Row(out.val, i, 3)
            IN  (SumSq(a) > PiSqFloor /\ SumSq(a) <= FourPiSqFloor)
                    => /\ SumSq(r) <= PiSqFloor
                       /\ \A j \in 1..3 : Sign(r[j]) = -Sign(a[j])

\* norm < EPSILON for the integer vector v scaled by 2^exp, EPSILON = 2^-52
BelowEpsilon(v, exp) ==
    \/ \A j \in 1..Len(v) : v[j].s = 0
    \/ exp < EpsilonExp /\ NormSq(v).n < NormSq(v).d * 4^(EpsilonExp - exp)

\* C3: Q2Q with normalize selected, on a quaternion or a batch of rows (N,4),
\* raises and returns nothing when some row has norm below EPSILON, and does
\* not raise when every row has norm at least EPSILON.
C3_NormalizeFailsFast ==
    (call = "Q2Q" /\ In("normalize", arg.op) /\ AtMostOneBatchAxis(arg.Q))
        => IF \E i \in Rows(arg.Q, 4) : BelowEpsilon(Row(arg.Q, i, 4), arg.Q.exp)
           THEN out.err = "Exception" /\ out.val = <<>>
           ELSE out.err = ""

C3_Witness ==
    /\ call = "Q2Q"
    /\ In("normalize", arg.op)
    /\ arg.Q.shape = <<2, 4>>
    /\ ~BelowEpsilon(Row(arg.Q, 1, 4), arg.Q.exp)
    /\ BelowEpsilon(Row(arg.Q, 2, 4), arg.Q.exp)
    /\ \E j \in 1..4 : Row(arg.Q, 2, 4)[j].s # 0
    /\ out.err = "Exception"

\* the three operations as the specification states them, on one quaternion
Normalized(q) ==
    [j \in 1..4 |-> Num(q[j].s, q[j].n * NormSq(q).d, q[j].d * NormSq(q).n)]

Halfspaced(q, wxyz_in) ==
    IF q[IF wxyz_in THEN 1 ELSE 4].s < 0
    THEN [j \in 1..4 |-> Num(-q[j].s, q[j].n, q[j].d)]
    ELSE q

Reordered(q, wxyz_in) ==
    IF wxyz_in THEN <<q[2], q[3], q[4], q[1]>> ELSE <<q[4], q[1], q[2], q[3]>>

InFixedOrder(q, names, wxyz_in) ==
    LET n == IF "normalize" \in names THEN Normalized(q) ELSE q
        h == IF "halfspace" \in names THEN Halfspaced(n, wxyz_in) ELSE n
    IN  IF "change_order" \in names THEN Reordered(h, wxyz_in) ELSE h

\* C4: whatever the order of the names in op, every quaternion of the result
\* of Q2Q is the input quaternion after normalize, then halfspace (testing the
\* scalar at its place in the input layout), then change_order, each applied
\* only if named in op.
C4_FixedOrder ==
    (call = "Q2Q" /\ AtMostOneBatchAxis(arg.Q) /\ out.err = "")
        => /\ out.val.shape = arg.Q.shape
           /\ \A i \in Rows(arg.Q, 4) :
                Row(out.val, i, 4)
                    = InFixedOrder(Row(arg.Q, i, 4), Names(arg.op), arg.wxyz_in)

C4_Witness ==
    /\ call = "Q2Q"
    /\ arg.op = <<"change_order", "halfspace", "normalize">>
    /\ arg.wxyz_in
    /\ arg.Q.shape = <<4>>
    /\ arg.Q.data[1].s < 0
    /\ arg.Q.data[2].s > 0
    /\ out.err = ""
    /\ out.val.data[4].s > 0
    /\ out.val.data[1].s < 0

\* C5: with halfspace selected, the scalar component of every output
\* quaternion, at its place in the output layout, is >= 0; without normalize
\* the output is q or -q (reordered if change_order is selected), and it is q
\* itself when the scalar component of q is already >= 0.
C5_Halfspace ==
    (call = "Q2Q" /\ In("halfspace", arg.op) /\ AtMostOneBatchAxis(arg.Q)
                  /\ out.err = "")
        => \A i \in Rows(arg.Q, 4) :
            LET q == Row(arg.Q, i, 4)
                r == Row(out.val, i, 4)
                minus_q == [j \in 1..4 |-> [q[j] EXCEPT !.s = -q[j].s]]
                w_in == IF arg.wxyz_in THEN 1 ELSE 4
                w_out == IF In("change_order", arg.op) THEN 5 - w_in ELSE w_in
                P(v) == IF In("change_order", arg.op)
                        THEN Reordered(v, arg.wxyz_in) ELSE v
            IN  /\ r[w_out].s >= 0
                /\ ~In("normalize", arg.op) => (r = P(q) \/ r = P(minus_q))
                /\ (~In("normalize", arg.op) /\ q[w_in].s >= 0) => r = P(q)

C5_Witness ==
    /\ call = "Q2Q"
    /\ arg.op = <<"halfspace">>
    /\ ~arg.wxyz_in
    /\ arg.Q.shape = <<4>>
    /\ arg.Q.data[4].s < 0
    /\ arg.Q.data[1].s > 0
    /\ out.err = ""
    /\ out.val.data[4].s > 0
    /\ out.val.data[1].s < 0

\* C6: Q2Q with only change_order maps (w,x,y,z) to (x,y,z,w) when wxyz_in
\* and (x,y,z,w) to (w,x,y,z) otherwise, altering no component, and
\* converting the result back from its layout returns the original array.
C6_ChangeOrder ==
    /\ (call = "Q2Q" /\ arg.op = <<"change_order">> /\ AtMostOneBatchAxis(arg.Q))
        => /\ out.err = ""
           /\ out.val.shape = arg.Q.shape
           /\ out.val.exp = arg.Q.exp
           /\ \A i \in Rows(arg.Q, 4) :
                LET q == Row(arg.Q, i, 4)
                    r == Row(out.val, i, 4)
                IN  IF arg.wxyz_in THEN r = <<q[2], q[3], q[4], q[1]>>
                                   ELSE r = <<q[4], q[1], q[2], q[3]>>
    /\ call = "Q2Q;Q2Q" => (out.err = "" /\ out.val = arg.Q)

C6_Witness ==
    /\ call = "Q2Q;Q2Q"
    /\ arg.Q.shape = <<2, 4>>
    /\ Row(arg.Q, 2, 4) = FromInts(<<1, 2, 3, 4>>)
    /\ ~arg.wxyz_in
    /\ out.val = arg.Q

\* C7: for every leading batch shape, Q2Q raises if the single-vector
\* function raises on some input quaternion, and otherwise returns an array
\* of the input's shape whose quaternion at each batch index is the
\* single-vector function of the input quaternion at that index.
C7_Claim ==
    call = "Q2Q" =>
        LET f(i) == q2q(Row(arg.Q, i, 4), arg.Q.exp, arg.op, arg.wxyz_in)
        IN  IF \E i \in Rows(arg.Q, 4) : f(i).err # ""
            THEN out.err # ""
            ELSE /\ out.err = ""
                 /\ out.val.shape = arg.Q.shape
                 /\ \A i \in Rows(arg.Q, 4) : Row(out.val, i, 4) = f(i).val

\* leading shapes the claim calls broadcast-compatible, and the larger one
Compatible(LR, Lp) ==
    LR = Lp \/ LR = <<>> \/ Lp = <<>> \/ LR = <<1>> \/ Lp = <<1>>

Larger(LR, Lp) ==
    IF LR = Lp \/ Lp = <<>> THEN LR
    ELSE IF LR = <<>> \/ LR = <<1>> THEN Lp
    ELSE LR

\* C8: for R and p of broadcast-compatible leading shapes, Rp2T succeeds and
\* returns T of the larger leading shape, every element of which has the
\* corresponding R as top-left block, the corresponding p as top-right
\* column and (0,0,0,1) as bottom row.
C8_Claim ==
    (call \in {"Rp2T", "p2T"} /\ Compatible(Lead(arg.R, 2), Lead(arg.p, 1)))
        => /\ out.err = ""
           /\ Lead(out.val, 2) = Larger(Lead(arg.R, 2), Lead(arg.p, 1))
           /\ \A b \in Rows(out.val, 16) :
                LET T == Row(out.val, b, 16)
                    R == Row(arg.R, IF Prod(arg.R.shape) = 9 THEN 1 ELSE b, 9)
                    p == Row(arg.p, IF Prod(arg.p.shape) = 3 THEN 1 ELSE b, 3)
                IN  T = <<R[1], R[2], R[3], p[1],
                          R[4], R[5], R[6], p[2],
                          R[7], R[8], R[9], p[3],
                          0, 0, 0, 1>>

\* the Euler angles (e1, e2, e3) of the i-th element of a result of R2E
Angles(E, i) == SubSeq(E.terms, (i - 1) * 3 + 1, i * 3)

\* C9: every element of the input of R2E is handled by exactly one branch:
\* R[0,2] = 1 gives (arctan2(R[0,1], R[0,2]), -pi/2, 0), R[0,2] = -1 gives
\* (arctan2(R[0,1], R[0,2]), pi/2, 0), without any division by cos(e2); every
\* other element gets the normal formulas on the clipped entry; and the
\* angles of an element are those R2E returns for that matrix alone.
C9_Branches ==
    call = "R2E" =>
        /\ out.val.shape = Lead(arg, 2) \o <<3>>
        /\ \A i \in Rows(arg, 9) :
            LET R == Row(arg, i, 9)
                e == Angles(out.val, i)
                c == <<"cos", <<"-arcsin", <<"num", Clip(R[3])>>>>>>
            IN  /\ R[3] = 1 =>
                    e = << <<"arctan2", <<"num", R[2]>>, <<"num", 1>>>>,
                           <<"-pi/2">>, <<"num", 0>> >>
                /\ R[3] = -1 =>
                    e = << <<"arctan2", <<"num", R[2]>>, <<"num", -1>>>>,
                           <<"pi/2">>, <<"num", 0>> >>
                /\ R[3] \notin {1, -1} =>
                    e = << <<"arctan2", <<"div", <<"num", R[6]>>, c>>,
                                        <<"div", <<"num", R[9]>>, c>>>>,
                           <<"-arcsin", <<"num", Clip(R[3])>>>>,
                           <<"arctan2", <<"div", <<"num", R[2]>>, c>>,
                                        <<"div", <<"num", R[1]>>, c>>>> >>
                /\ e = R2E(Arr(<<3, 3>>, R)).terms

C9_Witness ==
    /\ call = "R2E"
    /\ arg.shape = <<3, 3, 3>>
    /\ Row(arg, 1, 9)[3] = 1
    /\ Row(arg, 2, 9)[3] = -1
    /\ Row(arg, 2, 9)[2] # 0
    /\ Row(arg, 3, 9)[3] > 1
    /\ Angles(out.val, 2)[2] = <<"pi/2">>

\* C10: A2A emits a warning, and still returns a result, exactly when some
\* input vector has magnitude above 2 pi.
C10_Claim ==
    call = "A2A" =>
        /\ out.err = ""
        /\ warned > 0 <=> \E i \in Rows(arg, 3) : SumSq(Row(arg, i, 3)) > FourPiSqFloor

====
